---- MODULE Spec2Model ----
(***************************************************************************)
(* BaseResolversVisitor (visitor-plugin-common/src/base-resolvers-visitor) *)
(* as a state machine: the constructor runs createResolversFields twice,   *)
(* each run first filling nestedMapping through shouldMapType and then     *)
(* reducing the schema's type map into a table of type expressions.        *)
(*                                                                         *)
(* A TypeScript string is a sequence of tokens; a token is never split by  *)
(* any of the string operations of the class (startsWith, includes,        *)
(* replace), and the closing bracket ">" is always a token of its own.     *)
(***************************************************************************)
EXTENDS Integers, Sequences, FiniteSets, TLC

VARIABLES
    schema,               \* _schema: the type map, in getTypeMap() key order
    config,               \* _parsedConfig
    pc,                   \* position in the constructor
    pass,                 \* 1: the call of line 229, 2: the call of line 230
    idx,                  \* position of the running forEach / reduce
    nestedMapping,        \* createResolversFields' local nestedMapping
    duringCheck,          \* shouldMapType's duringCheck array of the running call
    stack,                \* shouldMapType's activation records
    retval,               \* the value a shouldMapType call has just returned
    prev,                 \* the accumulator of the reduce
    resolversTypes,       \* _resolversTypes
    resolversParentTypes, \* _resolversParentTypes
    usedMappers,          \* _usedMappers (the keys set to true)
    unused,               \* what the unusedMappers getter returned
    wrapBase,             \* wrapTypeWithModifiers: its baseType argument
    wrapType,             \* wrapTypeWithModifiers: its type argument
    wrapResult            \* wrapTypeWithModifiers: its result

vars == <<schema, config, pc, pass, idx, nestedMapping, duringCheck, stack,
          retval, prev, resolversTypes, resolversParentTypes, usedMappers,
          unused, wrapBase, wrapType, wrapResult>>

(***************************************************************************)
(* Bounds of the model.                                                    *)
(***************************************************************************)
MaxMapped == 2     \* entries of config.mappers
MaxEdges == 3      \* fields of the generated type graphs
MaxDepth == 3      \* modifiers around a field's named type

(***************************************************************************)
(* Strings.                                                                *)
(***************************************************************************)
RECURSIVE join(_, _)
\* Array.prototype.join over an array of strings
join(strs, sep) ==
    IF Len(strs) = 0 THEN <<>>
    ELSE IF Len(strs) = 1 THEN strs[1]
    ELSE strs[1] \o sep \o join(Tail(strs), sep)

startsWith(str, token) == Len(str) > 0 /\ str[1] = token

\* str.replace(/<marker>(.*?)>$/, '$1'): the first (leftmost) match is
\* replaced; the lazy group has to reach the ">" that ends the string.
replaceMarkerRegex(str, marker) ==
    LET n == Len(str)
        starts == {i \in 1..n : str[i] = marker /\ i < n /\ str[n] = ">"}
    IN  IF starts = {} THEN str
        ELSE LET i == CHOOSE k \in starts : \A j \in starts : k <= j
             IN  SubSeq(str, 1, i - 1) \o SubSeq(str, i + 1, n - 1)

Placeholder == "{T}"

hasPlaceholder(pattern) == \E i \in 1..Len(pattern) : pattern[i] = Placeholder

\* pattern.replace('{T}', typename): the first occurrence only
replacePlaceholder(pattern, typename) ==
    IF ~hasPlaceholder(pattern) THEN pattern
    ELSE LET i == CHOOSE k \in 1..Len(pattern) :
                      /\ pattern[k] = Placeholder
                      /\ \A j \in 1..(k - 1) : pattern[j] # Placeholder
         IN  SubSeq(pattern, 1, i - 1) \o typename
                 \o SubSeq(pattern, i + 1, Len(pattern))

applyMaybe(str) == <<"Maybe<">> \o str \o <<">">>

\* faulty variant: the replace runs without the startsWith guard
clearMaybeUnguarded(str) == replaceMarkerRegex(str, "Maybe<")

clearMaybe(str) ==
    IF startsWith(str, "Maybe<") THEN replaceMarkerRegex(str, "Maybe<")
    ELSE str

clearResolverTypeWrapper(str) ==
    IF startsWith(str, "ResolverTypeWrapper<")
    THEN replaceMarkerRegex(str, "ResolverTypeWrapper<")
    ELSE str

applyResolverTypeWrapper(str) ==
    <<"ResolverTypeWrapper<">> \o clearResolverTypeWrapper(str) \o <<">">>

(***************************************************************************)
(* Field types: a chain of modifiers, outermost first, around a name.      *)
(***************************************************************************)
isNonNullType(type) == Len(type.mods) > 0 /\ type.mods[1] = "NonNull"

isListType(type) == Len(type.mods) > 0 /\ type.mods[1] = "List"

ofType(type) == [type EXCEPT !.mods = Tail(@)]

RECURSIVE wrapTypeWithModifiers(_, _)
wrapTypeWithModifiers(baseType, type) ==
    IF isNonNullType(type)
    THEN clearMaybe(wrapTypeWithModifiers(baseType, ofType(type)))
    ELSE IF isListType(type)
    THEN LET innerType == wrapTypeWithModifiers(baseType, ofType(type))
         IN  applyMaybe(<<"Array<">> \o innerType \o <<">">>)
    ELSE applyMaybe(baseType)

(***************************************************************************)
(* The schema and the configuration.                                       *)
(***************************************************************************)
Null == [null |-> TRUE]

EmptyMap == [k \in {} |-> <<>>]

\* the keys of this._schema.getTypeMap(), in the order the schema lists them
allSchemaTypes == schema.order

\* faulty variant: the forEach stops one type short of the type map
typeCountShort == Len(allSchemaTypes) - 1

typeCount == Len(allSchemaTypes)

isObjectType(type) == schema.kind[type] = "Object"

isInterfaceType(type) == schema.kind[type] = "Interface"

isUnionType(type) == schema.kind[type] = "Union"

isEnumType(type) == schema.kind[type] = "Enum"

\* type.getFields(), in Object.keys order: [name, type], type = [mods, name]
getFields(type) == schema.fields[type]

\* getBaseType(field.type).name: the named type under the modifiers
getBaseType(type) == type.name

\* faulty variant: no type name counts as an introspection name
isIntrospectionNever(typeName) == FALSE

\* typeName.startsWith('__')
isIntrospection(typeName) == SubSeq(typeName, 1, 2) = "__"

\* this._rootTypeNames = getRootTypeNames(_schema)
rootTypeNames == schema.roots

\* this.config.mappers[typeName] is truthy: a ParsedMapper is registered
isMappedType(typeName) == typeName \in DOMAIN config.mappers

\* this.config.scalars[typeName] is truthy: buildScalars registers every
\* scalar type of the schema
isScalarType(typeName) == schema.kind[typeName] = "Scalar"

\* !!(this.config.defaultMapper && this.config.defaultMapper.type)
hasDefaultMapper ==
    config.defaultMapper # Null /\ config.defaultMapper.type # <<>>

\* the name converter (pascal case by default) on the names of the schema
convertName(name) == IF name = "post" THEN "Post" ELSE name

\* `${this.convertName('ResolversTypes')}['${name}']`
getTypeToUse(name) == <<"ResolversTypes", "['", name, "']">>

\* `Scalars['${name}']`
getScalar(name) == <<"Scalars", "['", name, "']">>

(***************************************************************************)
(* shouldMapType, one activation record per call.  Its checkedBefore is    *)
(* nestedMapping (the caller's object, written only by the caller's loop); *)
(* duringCheck is one array shared by all calls under one top-level call,  *)
(* pushed to and never popped.                                             *)
(***************************************************************************)
Range(seq) == {seq[i] : i \in 1..Len(seq)}

Pop(stk) == SubSeq(stk, 1, Len(stk) - 1)

\* faulty variant: only an object type has its fields looked at
earlyResultObjectOnly(type) ==
    IF type \in DOMAIN nestedMapping THEN <<nestedMapping[type]>>
    ELSE IF isIntrospection(type) \/ isScalarType(type) THEN <<FALSE>>
    ELSE IF isMappedType(type) THEN <<TRUE>>
    ELSE IF isObjectType(type) THEN <<>>
    ELSE <<FALSE>>

\* lines 234-246 and 275: <<b>> when the call returns b before looking at
\* any field, <<>> when it goes on to the fields
earlyResult(type) ==
    IF type \in DOMAIN nestedMapping THEN <<nestedMapping[type]>>
    ELSE IF isIntrospection(type) \/ isScalarType(type) THEN <<FALSE>>
    ELSE IF isMappedType(type) THEN <<TRUE>>
    ELSE IF isObjectType(type) \/ isInterfaceType(type) THEN <<>>
    ELSE <<FALSE>>

\* faulty variant: no field is filtered out
filterNothing(type, checking) == getFields(type)

\* lines 249-255: filter() runs over all fields before some() starts
filterDuringCheck(type, checking) ==
    LET notDuringCheck(field) == getBaseType(field.type) \notin Range(checking)
    IN  SelectSeq(getFields(type), notDuringCheck)

\* a call shouldMapType(type, nestedMapping, checking) up to its first field
EnterShouldMapType(type, checking) ==
    IF earlyResult(type) # <<>>
    THEN /\ retval' = earlyResult(type)
         /\ stack' = stack
    ELSE /\ retval' = <<>>
         /\ stack' = Append(stack, [type |-> type,
                                    todo |-> filterDuringCheck(type, checking)])

\* lines 283-285: the forEach calls shouldMapType(schemaType, nestedMapping)
ShouldMapTypeCall ==
    /\ pc = "analyze"
    /\ stack = <<>>
    /\ retval = <<>>
    /\ idx <= typeCount
    /\ duringCheck' = <<>>
    /\ EnterShouldMapType(allSchemaTypes[idx], <<>>)
    /\ UNCHANGED <<schema, config, pc, pass, idx, nestedMapping, prev,
                   resolversTypes, resolversParentTypes, usedMappers, unused,
                   wrapBase, wrapType, wrapResult>>

\* lines 256-272: some() takes the next field that passed the filter
SomeField ==
    /\ pc = "analyze"
    /\ stack # <<>>
    /\ retval = <<>>
    /\ LET top == stack[Len(stack)]
       IN  IF top.todo = <<>>
           THEN /\ stack' = Pop(stack)
                /\ retval' = <<FALSE>>
                /\ duringCheck' = duringCheck
           ELSE LET fieldType == getBaseType(Head(top.todo).type)
                IN  IF fieldType \in DOMAIN nestedMapping
                    THEN /\ retval' = <<nestedMapping[fieldType]>>
                         /\ stack' = stack
                         /\ duringCheck' = duringCheck
                    ELSE IF isMappedType(top.type)
                    THEN /\ retval' = <<TRUE>>
                         /\ stack' = stack
                         /\ duringCheck' = duringCheck
                    ELSE /\ duringCheck' = Append(duringCheck, top.type)
                         /\ EnterShouldMapType(fieldType,
                                               Append(duringCheck, top.type))
    /\ UNCHANGED <<schema, config, pc, pass, idx, nestedMapping, prev,
                   resolversTypes, resolversParentTypes, usedMappers, unused,
                   wrapBase, wrapType, wrapResult>>

\* lines 256-272: the callback of some() has returned retval for the field
\* at the head of todo: true ends some() and the call, false moves on
SomeResult ==
    /\ pc = "analyze"
    /\ stack # <<>>
    /\ retval # <<>>
    /\ LET top == stack[Len(stack)]
       IN  IF retval[1]
           THEN /\ stack' = Pop(stack)
                /\ retval' = <<TRUE>>
           ELSE /\ stack' = [stack EXCEPT ![Len(stack)].todo = Tail(top.todo)]
                /\ retval' = <<>>
    /\ UNCHANGED <<schema, config, pc, pass, idx, nestedMapping, duringCheck,
                   prev, resolversTypes, resolversParentTypes, usedMappers,
                   unused, wrapBase, wrapType, wrapResult>>

\* line 285: nestedMapping[typeName] = the result of the top-level call
StoreNestedMapping ==
    /\ pc = "analyze"
    /\ stack = <<>>
    /\ retval # <<>>
    /\ nestedMapping' = (allSchemaTypes[idx] :> retval[1]) @@ nestedMapping
    /\ retval' = <<>>
    /\ IF idx = typeCount
       THEN pc' = "build" /\ idx' = 1
       ELSE pc' = pc /\ idx' = idx + 1
    /\ UNCHANGED <<schema, config, pass, duringCheck, stack, prev,
                   resolversTypes, resolversParentTypes, usedMappers, unused,
                   wrapBase, wrapType, wrapResult>>

(***************************************************************************)
(* createResolversFields: the reduce over the type map.                    *)
(***************************************************************************)
\* line 229: type => this.applyResolverTypeWrapper(type); line 230: type => type
applyWrapper(str) == IF pass = 1 THEN applyResolverTypeWrapper(str) ELSE str

\* line 229: type => this.clearResolverTypeWrapper(type); line 230: type => type
clearWrapper(str) == IF pass = 1 THEN clearResolverTypeWrapper(str) ELSE str

\* faulty variant: the default mapper's branch comes before the explicit mapper's
resolveTypeDefaultFirst(typeName) ==
    IF isEnumType(typeName) /\ typeName \in DOMAIN config.enumValues
    THEN [type |-> config.enumValues[typeName].typeIdentifier,
          shouldApplyOmit |-> FALSE, used |-> FALSE]
    ELSE IF hasDefaultMapper /\ ~hasPlaceholder(config.defaultMapper.type)
    THEN [type |-> applyWrapper(config.defaultMapper.type),
          shouldApplyOmit |-> FALSE, used |-> FALSE]
    ELSE IF isMappedType(typeName) /\ config.mappers[typeName].type # <<>>
    THEN [type |-> applyWrapper(config.mappers[typeName].type),
          shouldApplyOmit |-> FALSE, used |-> TRUE]
    ELSE IF isScalarType(typeName)
    THEN [type |-> applyWrapper(getScalar(typeName)),
          shouldApplyOmit |-> FALSE, used |-> FALSE]
    ELSE IF isUnionType(typeName)
    THEN [type |-> join([i \in 1..Len(schema.members[typeName]) |->
                            getTypeToUse(schema.members[typeName][i])],
                        <<"|">>),
          shouldApplyOmit |-> FALSE, used |-> FALSE]
    ELSE [type |-> <<convertName(typeName)>>,
          shouldApplyOmit |-> TRUE, used |-> FALSE]

\* lines 306-323: the branches after the root type's; used: markMapperAsUsed
resolveType(typeName) ==
    IF isEnumType(typeName) /\ typeName \in DOMAIN config.enumValues
    THEN [type |-> config.enumValues[typeName].typeIdentifier,
          shouldApplyOmit |-> FALSE, used |-> FALSE]
    ELSE IF isMappedType(typeName) /\ config.mappers[typeName].type # <<>>
    THEN [type |-> applyWrapper(config.mappers[typeName].type),
          shouldApplyOmit |-> FALSE, used |-> TRUE]
    ELSE IF hasDefaultMapper /\ ~hasPlaceholder(config.defaultMapper.type)
    THEN [type |-> applyWrapper(config.defaultMapper.type),
          shouldApplyOmit |-> FALSE, used |-> FALSE]
    ELSE IF isScalarType(typeName)
    THEN [type |-> applyWrapper(getScalar(typeName)),
          shouldApplyOmit |-> FALSE, used |-> FALSE]
    ELSE IF isUnionType(typeName)
    THEN [type |-> join([i \in 1..Len(schema.members[typeName]) |->
                            getTypeToUse(schema.members[typeName][i])],
                        <<"|">>),
          shouldApplyOmit |-> FALSE, used |-> FALSE]
    ELSE [type |-> <<convertName(typeName)>>,
          shouldApplyOmit |-> TRUE, used |-> FALSE]

\* faulty variant: a field of union type is not looked at
isRelevantFieldNoUnion(field) ==
    LET baseType == getBaseType(field.type)
    IN  isMappedType(baseType) \/ nestedMapping[baseType]

\* line 333: the fields that are not mapped to null
isRelevantField(field) ==
    LET baseType == getBaseType(field.type)
    IN  isMappedType(baseType) \/ isUnionType(baseType) \/ nestedMapping[baseType]

\* line 337
addOptionalSign(field) == ~config.avoidOptionals /\ ~isNonNullType(field.type)

\* lines 327-345
relevantFields(typeName) ==
    LET kept == SelectSeq(getFields(typeName), isRelevantField)
    IN  [i \in 1..Len(kept) |->
            [addOptionalSign |-> addOptionalSign(kept[i]),
             fieldName |-> kept[i].name,
             replaceWithType |->
                 wrapTypeWithModifiers(getTypeToUse(getBaseType(kept[i].type)),
                                       kept[i].type)]]

\* lines 379-381: Omit<typeName, 'f' | 'g'> & { f?: F, g: G }
replaceFieldsInType(typeName, fields) ==
    <<"Omit<">> \o typeName \o <<",">>
        \o join([i \in 1..Len(fields) |-> <<"'", fields[i].fieldName, "'">>],
                <<"|">>)
        \o <<">", "&", "{">>
        \o join([i \in 1..Len(fields) |->
                    <<fields[i].fieldName>>
                        \o (IF fields[i].addOptionalSign THEN <<"?">> ELSE <<>>)
                        \o <<":">> \o fields[i].replaceWithType],
                <<",">>)
        \o <<"}">>

\* line 325
appliesOmit(typeName, resolved) ==
    \/ /\ resolved.shouldApplyOmit
       /\ resolved.type # <<"any">>
       /\ isObjectType(typeName)
    \/ /\ isInterfaceType(typeName)
       /\ ~isMappedType(typeName)

\* lines 325-354
overrideFields(typeName, resolved) ==
    IF appliesOmit(typeName, resolved)
    THEN IF Len(relevantFields(typeName)) > 0
         THEN applyWrapper(replaceFieldsInType(resolved.type,
                                               relevantFields(typeName)))
         ELSE applyWrapper(resolved.type)
    ELSE resolved.type

\* lines 356-358
replaceOwnPlaceholder(typeName, type) ==
    IF isMappedType(typeName) /\ hasPlaceholder(type)
    THEN replacePlaceholder(type, <<typeName>>)
    ELSE type

\* faulty variant: the entry goes into the template with its wrapper on
applyDefaultMapperKeepWrapper(typeName, type) ==
    IF ~isMappedType(typeName) /\ hasDefaultMapper
           /\ hasPlaceholder(config.defaultMapper.type)
    THEN LET name == IF isScalarType(typeName)
                     THEN getScalar(typeName) ELSE type
             replaced == replacePlaceholder(config.defaultMapper.type, name)
         IN  IF isUnionType(typeName) THEN replaced
             ELSE applyWrapper(replacePlaceholder(config.defaultMapper.type,
                                                  name))
    ELSE type

\* lines 360-371
applyDefaultMapper(typeName, type) ==
    IF ~isMappedType(typeName) /\ hasDefaultMapper
           /\ hasPlaceholder(config.defaultMapper.type)
    THEN LET name == clearWrapper(IF isScalarType(typeName)
                                  THEN getScalar(typeName) ELSE type)
             replaced == replacePlaceholder(config.defaultMapper.type, name)
         IN  IF isUnionType(typeName) THEN replaced
             ELSE applyWrapper(replacePlaceholder(config.defaultMapper.type,
                                                  name))
    ELSE type

\* faulty variant: the root type's branch comes after the mapper's
resolveEntryMapperFirst(typeName) ==
    IF typeName \in rootTypeNames /\ ~isMappedType(typeName)
    THEN [type |-> applyWrapper(config.rootValueType.type), used |-> FALSE]
    ELSE LET resolved == resolveType(typeName)
         IN  [type |-> applyDefaultMapper(typeName,
                          replaceOwnPlaceholder(typeName,
                              overrideFields(typeName, resolved))),
              used |-> resolved.used]

\* lines 294-373: what the callback stores in prev[typeName], and whether it
\* called markMapperAsUsed(typeName)
resolveEntry(typeName) ==
    IF typeName \in rootTypeNames
    THEN [type |-> applyWrapper(config.rootValueType.type), used |-> FALSE]
    ELSE LET resolved == resolveType(typeName)
         IN  [type |-> applyDefaultMapper(typeName,
                          replaceOwnPlaceholder(typeName,
                              overrideFields(typeName, resolved))),
              used |-> resolved.used]

\* faulty variant: the name is not recorded
markMapperAsUsedNot(used, name) == used

\* lines 615-617
markMapperAsUsed(used, name) == used \cup {name}

\* lines 288-375: one call of the reduce callback
ReduceType ==
    /\ pc = "build"
    /\ idx <= typeCount
    /\ LET typeName == allSchemaTypes[idx]
       IN  IF isIntrospection(typeName)
           THEN UNCHANGED <<prev, usedMappers>>
           ELSE /\ prev' = (typeName :> resolveEntry(typeName).type) @@ prev
                /\ usedMappers' = IF resolveEntry(typeName).used
                                  THEN markMapperAsUsed(usedMappers, typeName)
                                  ELSE usedMappers
    /\ idx' = idx + 1
    /\ UNCHANGED <<schema, config, pc, pass, nestedMapping, duringCheck, stack,
                   retval, resolversTypes, resolversParentTypes, unused,
                   wrapBase, wrapType, wrapResult>>

\* line 229: this._resolversTypes = the table of the first call; line 230
\* then calls createResolversFields again, with its own nestedMapping
SetResolversTypes ==
    /\ pc = "build"
    /\ pass = 1
    /\ idx > typeCount
    /\ resolversTypes' = prev
    /\ pass' = 2
    /\ pc' = "analyze"
    /\ idx' = 1
    /\ nestedMapping' = EmptyMap
    /\ prev' = EmptyMap
    /\ UNCHANGED <<schema, config, duringCheck, stack, retval,
                   resolversParentTypes, usedMappers, unused,
                   wrapBase, wrapType, wrapResult>>

\* line 230: this._resolversParentTypes = the table of the second call
SetResolversParentTypes ==
    /\ pc = "build"
    /\ pass = 2
    /\ idx > typeCount
    /\ resolversParentTypes' = prev
    /\ pc' = "done"
    /\ UNCHANGED <<schema, config, pass, idx, nestedMapping, duringCheck, stack,
                   retval, prev, resolversTypes, usedMappers, unused,
                   wrapBase, wrapType, wrapResult>>

\* lines 454-456: the unusedMappers getter, read once the visitor is built
UnusedMappers ==
    /\ pc = "done"
    /\ unused = <<>>
    /\ unused' = <<{name \in DOMAIN config.mappers : name \notin usedMappers}>>
    /\ UNCHANGED <<schema, config, pc, pass, idx, nestedMapping, duringCheck,
                   stack, retval, prev, resolversTypes, resolversParentTypes,
                   usedMappers, wrapBase, wrapType, wrapResult>>

(***************************************************************************)
(* The schemas and configurations the visitor is constructed with.         *)
(***************************************************************************)
TypeMapKeys ==
    <<"Query", "User", "post", "Node", "Result", "Color", "Date", "__Type">>

KindOf ==
    [n \in Range(TypeMapKeys) |->
        CASE n \in {"Query", "User", "post", "__Type"} -> "Object"
          [] n = "Node" -> "Interface"
          [] n = "Result" -> "Union"
          [] n = "Color" -> "Enum"
          [] n = "Date" -> "Scalar"]

MembersOf ==
    [n \in Range(TypeMapKeys) |->
        IF n = "Result" THEN <<"User", "post">> ELSE <<>>]

Field(name, mods, base) ==
    [name |-> name, type |-> [mods |-> mods, name |-> base]]

\* a schema that has every kind of type and of field at once
FullFields ==
    [n \in Range(TypeMapKeys) |->
        CASE n = "Query" ->
               <<Field("user", <<"NonNull">>, "User"),
                 Field("search", <<"List">>, "Result")>>
          [] n = "User" ->
               <<Field("id", <<"NonNull">>, "Date"),
                 Field("posts", <<"NonNull", "List", "NonNull">>, "post"),
                 Field("friend", <<>>, "User"),
                 Field("color", <<>>, "Color")>>
          [] n = "post" ->
               <<Field("author", <<"NonNull">>, "User"),
                 Field("node", <<"List", "NonNull">>, "Node")>>
          [] n = "Node" ->
               <<Field("owner", <<>>, "User"),
                 Field("id", <<"NonNull">>, "Date")>>
          [] n = "__Type" -> <<Field("name", <<>>, "Date")>>
          [] OTHER -> <<>>]

\* the type graphs: any MaxEdges fields from an owner to a target
EdgeOwners == <<"Query", "User", "post", "Node">>

EdgeTargets == <<"User", "post", "Node", "Result">>

EdgeMods(target) ==
    CASE target = "User" -> <<>>
      [] target = "post" -> <<"NonNull">>
      [] target = "Node" -> <<"List">>
      [] target = "Result" -> <<"NonNull", "List", "NonNull">>

Edges == Range(EdgeOwners) \X Range(EdgeTargets)

GraphFields(edges) ==
    [n \in Range(TypeMapKeys) |->
        LET hasEdge(target) == <<n, target>> \in edges
            targets == SelectSeq(EdgeTargets, hasEdge)
        IN  [i \in 1..Len(targets) |->
                Field("to" \o targets[i], EdgeMods(targets[i]), targets[i])]]

Schema(fields) ==
    [order |-> TypeMapKeys, kind |-> KindOf, fields |-> fields,
     members |-> MembersOf, roots |-> {"Query"}]

\* the names config.mappers may have: the schema's, and one it does not have
MapperNames ==
    {"Query", "User", "post", "Node", "Result", "Color", "Date", "Ghost"}

\* a ParsedMapper, by the way its raw string is written
MapperOf(name, style) ==
    CASE style = "plain" -> [type |-> <<name \o "Model">>]
      [] style = "generic" -> [type |-> <<"Lazy<", Placeholder, ">">>]
      [] style = "empty" -> [type |-> <<>>]

DefaultMappers ==
    {Null, [type |-> <<"any">>], [type |-> <<"Partial<", Placeholder, ">">>]}

RootValueTypes == {[type |-> <<"{}">>], [type |-> <<"RootValueType">>]}

Config(mapped, style, defaultMapper, enums, avoidOptionals, rootValueType) ==
    [mappers |-> [n \in mapped |-> MapperOf(n, style)],
     defaultMapper |-> defaultMapper,
     enumValues |-> [n \in enums |-> [typeIdentifier |-> <<n \o "Enum">>]],
     rootValueType |-> rootValueType,
     avoidOptionals |-> avoidOptionals]

InitConstructor ==
    /\ pc = "analyze"
    /\ pass = 1
    /\ idx = 1
    /\ nestedMapping = EmptyMap
    /\ duringCheck = <<>>
    /\ stack = <<>>
    /\ retval = <<>>
    /\ prev = EmptyMap
    /\ resolversTypes = EmptyMap
    /\ resolversParentTypes = EmptyMap
    /\ usedMappers = {}
    /\ unused = <<>>
    /\ wrapBase = <<>>
    /\ wrapType = [mods |-> <<>>, name |-> "Date"]
    /\ wrapResult = <<>>

\* every configuration over the full schema
InitConfigs ==
    /\ schema = Schema(FullFields)
    /\ \E mapped \in {m \in SUBSET MapperNames : Cardinality(m) <= MaxMapped} :
       \E style \in IF mapped = {} THEN {"plain"}
                    ELSE {"plain", "generic", "empty"} :
       \E defaultMapper \in DefaultMappers :
       \E enums \in SUBSET {"Color"} :
       \E avoidOptionals \in BOOLEAN :
       \E rootValueType \in RootValueTypes :
           config = Config(mapped, style, defaultMapper, enums, avoidOptionals,
                           rootValueType)

\* every type graph, with at most one mapper
InitGraphs ==
    /\ \E edges \in {e \in SUBSET Edges : Cardinality(e) <= MaxEdges} :
           schema = Schema(GraphFields(edges))
    /\ \E mapped \in {m \in SUBSET Range(EdgeTargets) : Cardinality(m) <= 1} :
           config = Config(mapped, "plain", Null, {}, FALSE, [type |-> <<"{}">>])

Init == InitConstructor /\ (InitConfigs \/ InitGraphs)

Next ==
    \/ ShouldMapTypeCall
    \/ SomeField
    \/ SomeResult
    \/ StoreNestedMapping
    \/ ReduceType
    \/ SetResolversTypes
    \/ SetResolversParentTypes
    \/ UnusedMappers

Spec == Init /\ [][Next]_vars

(***************************************************************************)
(* wrapTypeWithModifiers on its own: every chain of at most MaxDepth       *)
(* modifiers around every base expression the class hands to it, and two   *)
(* that are not references into ResolversTypes.                            *)
(***************************************************************************)
ModifierChains ==
    UNION {[1..d -> {"NonNull", "List"}] : d \in 0..MaxDepth}

BaseExpressions ==
    {getTypeToUse(n) : n \in Range(TypeMapKeys)}
        \cup {<<"Foo">>, <<"Array<", "Foo", ">">>}

InitWrap ==
    /\ schema = Schema(FullFields)
    /\ config = Config({}, "plain", Null, {}, FALSE, [type |-> <<"{}">>])
    /\ pc = "wrap"
    /\ pass = 1
    /\ idx = 1
    /\ nestedMapping = EmptyMap
    /\ duringCheck = <<>>
    /\ stack = <<>>
    /\ retval = <<>>
    /\ prev = EmptyMap
    /\ resolversTypes = EmptyMap
    /\ resolversParentTypes = EmptyMap
    /\ usedMappers = {}
    /\ unused = <<>>
    /\ wrapBase \in BaseExpressions
    /\ \E mods \in ModifierChains : wrapType = [mods |-> mods, name |-> "Date"]
    /\ wrapResult = <<>>

\* lines 407-418, called with wrapBase and wrapType
WrapTypeWithModifiers ==
    /\ pc = "wrap"
    /\ wrapResult' = wrapTypeWithModifiers(wrapBase, wrapType)
    /\ pc' = "wrapped"
    /\ UNCHANGED <<schema, config, pass, idx, nestedMapping, duringCheck, stack,
                   retval, prev, resolversTypes, resolversParentTypes,
                   usedMappers, unused, wrapBase, wrapType>>

NextWrap == WrapTypeWithModifiers

SpecWrap == InitWrap /\ [][NextWrap]_vars

\* the dependency analysis of the first call of createResolversFields on
\* the type graphs; the forEach of lines 283-286 runs to its end
NextAnalysis ==
    \/ ShouldMapTypeCall
    \/ SomeField
    \/ SomeResult
    \/ StoreNestedMapping

InitAnalysis == InitConstructor /\ InitGraphs

SpecAnalysis ==
    /\ InitAnalysis
    /\ [][NextAnalysis]_vars
    /\ WF_vars(NextAnalysis)

\* the type map and the fields of a type in another order of enumeration:
\* Object.keys follows the order in which the schema was built
Reverse(seq) == [i \in 1..Len(seq) |-> seq[Len(seq) + 1 - i]]

Orders(seq) == {seq, Reverse(seq)}

GraphFieldsIn(edges, targetOrder) ==
    [n \in Range(TypeMapKeys) |->
        LET hasEdge(target) == <<n, target>> \in edges
            targets == SelectSeq(targetOrder, hasEdge)
        IN  [i \in 1..Len(targets) |->
                Field("to" \o targets[i], EdgeMods(targets[i]), targets[i])]]

SchemaIn(order, fields) ==
    [order |-> order, kind |-> KindOf, fields |-> fields,
     members |-> MembersOf, roots |-> {"Query"}]

\* every type graph with at most one mapper, and the full schema with every
\* set of mappers, each in both orders of its types and of its fields
InitOrders ==
    /\ InitConstructor
    /\ \E order \in Orders(TypeMapKeys) :
           \/ /\ \E edges \in {e \in SUBSET Edges : Cardinality(e) <= MaxEdges} :
                 \E targetOrder \in Orders(EdgeTargets) :
                     schema = SchemaIn(order, GraphFieldsIn(edges, targetOrder))
              /\ \E mapped \in {m \in SUBSET Range(EdgeTargets) :
                                    Cardinality(m) <= 1} :
                     config = Config(mapped, "plain", Null, {}, FALSE,
                                     [type |-> <<"{}">>])
           \/ /\ \E reversed \in BOOLEAN :
                     schema = SchemaIn(order,
                                  [n \in Range(TypeMapKeys) |->
                                      IF reversed THEN Reverse(FullFields[n])
                                      ELSE FullFields[n]])
              /\ \E mapped \in {m \in SUBSET MapperNames :
                                    Cardinality(m) <= MaxMapped} :
                     config = Config(mapped, "plain", Null, {}, FALSE,
                                     [type |-> <<"{}">>])

\* the dependency analysis of the first call of createResolversFields, over
\* the schemas in both orders
SpecOrders == InitOrders /\ [][NextAnalysis]_vars

(***************************************************************************)
(* Properties.                                                             *)
(***************************************************************************)
Constructed == pc = "done"

\* the wrapper marker put around an expression, written out
Wrapped(str) == <<"ResolverTypeWrapper<">> \o str \o <<">">>

\* C1: once the constructor has returned, ResolversTypes and
\* ResolversParentTypes have the same keys, and these are exactly the names
\* of the schema's types that do not start with "__".
C1_TablesTotalAndEqualKeys ==
    Constructed =>
        /\ DOMAIN resolversTypes = DOMAIN resolversParentTypes
        /\ DOMAIN resolversTypes =
               {name \in Range(schema.order) : SubSeq(name, 1, 2) # "__"}

C1_Witness ==
    /\ Constructed
    /\ "__Type" \in Range(schema.order)
    /\ "__Type" \notin DOMAIN resolversTypes
    /\ {"Query", "Result", "Color", "Date"} \subseteq DOMAIN resolversParentTypes

\* C2: a root type's entry is the wrapped root value type in ResolversTypes
\* and the bare root value type in ResolversParentTypes, whatever its fields,
\* the mappers, the default mapper and the enum values are.
C2_RootInvariance ==
    Constructed =>
        \A root \in schema.roots :
            /\ resolversTypes[root] = Wrapped(config.rootValueType.type)
            /\ resolversParentTypes[root] = config.rootValueType.type

C2_Witness ==
    /\ Constructed
    /\ "Query" \in schema.roots
    /\ "Query" \in DOMAIN config.mappers
    /\ config.mappers["Query"].type # <<>>
    /\ hasDefaultMapper
    /\ \E i \in 1..Len(getFields("Query")) :
           getBaseType(getFields("Query")[i].type) \in DOMAIN config.mappers
    /\ resolversTypes["Query"] = Wrapped(config.rootValueType.type)

\* the tokens of the default mapper's expression that are its own
DefaultMapperTokens ==
    IF config.defaultMapper = Null THEN {}
    ELSE Range(config.defaultMapper.type) \ {Placeholder, ">"}

\* entry is the wrapped expression, its placeholder (if any) filled in
WrapsExpression(entry, expression) ==
    /\ Len(entry) = Len(expression) + 2
    /\ entry[1] = "ResolverTypeWrapper<"
    /\ entry[Len(entry)] = ">"
    /\ \A i \in 1..Len(expression) :
           expression[i] = Placeholder \/ entry[i + 1] = expression[i]

\* the explicit mapper of typeName decides its entry, and is recorded
MapperWins(typeName) ==
    /\ WrapsExpression(resolversTypes[typeName], config.mappers[typeName].type)
    /\ typeName \in usedMappers
    /\ Range(resolversTypes[typeName]) \cap DefaultMapperTokens = {}

HasEnumOverride(typeName) ==
    schema.kind[typeName] = "Enum" /\ typeName \in DOMAIN config.enumValues

\* C3, as claimed: for every type of the schema that has an explicit mapper
\* with a non-empty expression while a default mapper is configured, the
\* ResolversTypes entry is built from the explicit mapper, the type is in the
\* usage set and the entry uses nothing of the default mapper.
C3_Original ==
    Constructed /\ config.defaultMapper # Null =>
        \A typeName \in DOMAIN resolversTypes \cap DOMAIN config.mappers :
            config.mappers[typeName].type # <<>> => MapperWins(typeName)

\* C3, amended: the same for every such type that is neither a root type nor
\* an enum with an enum override (these two branches come before the
\* mapper's).
C3_MapperBeatsDefault ==
    Constructed /\ config.defaultMapper # Null =>
        \A typeName \in DOMAIN resolversTypes \cap DOMAIN config.mappers :
            /\ config.mappers[typeName].type # <<>>
            /\ typeName \notin schema.roots
            /\ ~HasEnumOverride(typeName)
            => MapperWins(typeName)

C3_Witness ==
    /\ Constructed
    /\ hasDefaultMapper
    /\ ~hasPlaceholder(config.defaultMapper.type)
    /\ "User" \in DOMAIN config.mappers
    /\ "Color" \in DOMAIN config.mappers
    /\ ~HasEnumOverride("Color")
    /\ config.mappers["User"].type = <<"Lazy<", Placeholder, ">">>
    /\ "User" \in usedMappers
    /\ "Color" \in usedMappers

\* C4: a non-root enum with an enum override has the override's type
\* identifier, and nothing else, as its entry in both tables, whatever the
\* mappers and the default mapper are.
C4_EnumOverrideVerbatim ==
    Constructed =>
        \A typeName \in DOMAIN resolversTypes :
            HasEnumOverride(typeName) /\ typeName \notin schema.roots =>
                /\ resolversTypes[typeName] =
                       config.enumValues[typeName].typeIdentifier
                /\ resolversParentTypes[typeName] =
                       config.enumValues[typeName].typeIdentifier

\* C5: under a default mapper without placeholder, every type that is not a
\* root type, has no enum override and has no explicit mapper has exactly
\* the wrapped default mapper expression as its ResolversTypes entry.
C5_DefaultMapperVerbatim ==
    Constructed /\ hasDefaultMapper
                /\ ~hasPlaceholder(config.defaultMapper.type) =>
        \A typeName \in DOMAIN resolversTypes :
            /\ typeName \notin schema.roots
            /\ ~HasEnumOverride(typeName)
            /\ typeName \notin DOMAIN config.mappers
            => resolversTypes[typeName] = Wrapped(config.defaultMapper.type)

\* the default mapper's expression with its placeholder replaced by str
InDefaultMapper(str) ==
    LET template == config.defaultMapper.type
        at == CHOOSE k \in 1..Len(template) : template[k] = Placeholder
    IN  SubSeq(template, 1, at - 1) \o str
            \o SubSeq(template, at + 1, Len(template))

DefaultMapperHasPlaceholder ==
    /\ config.defaultMapper # Null
    /\ Placeholder \in Range(config.defaultMapper.type)

\* the representation of an unmapped, non-root type before any wrapper and
\* before the default mapper: the scalar's, the enum override's, the union
\* of the members' references, or the identifier, with its fields
\* overridden where the type is an object or interface that has such fields
UnwrappedRepresentation(typeName) ==
    IF schema.kind[typeName] = "Scalar"
    THEN <<"Scalars", "['", typeName, "']">>
    ELSE IF HasEnumOverride(typeName)
    THEN config.enumValues[typeName].typeIdentifier
    ELSE IF schema.kind[typeName] = "Union"
    THEN join([i \in 1..Len(schema.members[typeName]) |->
                  <<"ResolversTypes", "['", schema.members[typeName][i], "']">>],
              <<"|">>)
    ELSE IF /\ schema.kind[typeName] \in {"Object", "Interface"}
            /\ relevantFields(typeName) # <<>>
    THEN replaceFieldsInType(<<convertName(typeName)>>,
                             relevantFields(typeName))
    ELSE <<convertName(typeName)>>

\* C6: under a default mapper with a placeholder, the ResolversTypes entry
\* of every non-root type without explicit mapper is the wrapped template
\* with the placeholder replaced by the type's unwrapped representation,
\* which holds no wrapper marker; a union's entry is the same without the
\* outer wrapper.
C6_DefaultMapperTemplate ==
    Constructed /\ DefaultMapperHasPlaceholder =>
        \A typeName \in DOMAIN resolversTypes :
            typeName \notin schema.roots
                /\ typeName \notin DOMAIN config.mappers =>
            LET inner == UnwrappedRepresentation(typeName)
            IN  /\ "ResolverTypeWrapper<" \notin Range(inner)
                /\ resolversTypes[typeName] =
                       IF schema.kind[typeName] = "Union"
                       THEN InDefaultMapper(inner)
                       ELSE Wrapped(InDefaultMapper(inner))

C6_Witness ==
    /\ Constructed
    /\ DefaultMapperHasPlaceholder
    /\ "User" \in DOMAIN config.mappers
    /\ {"post", "Node", "Result", "Date", "Color"} \cap DOMAIN config.mappers = {}
    /\ resolversTypes["Result"][1] = "Partial<"
    /\ resolversTypes["Date"] =
           <<"ResolverTypeWrapper<", "Partial<", "Scalars", "['", "Date", "']",
             ">", ">">>
    /\ SubSeq(resolversTypes["post"], 1, 4) =
           <<"ResolverTypeWrapper<", "Partial<", "Omit<", "Post">>

\* an unmapped, non-root object type whose entry comes from the last branch
\* of the chain (line 321) and so goes on to the override of its fields
ReachesFieldOverride(typeName) ==
    /\ schema.kind[typeName] = "Object"
    /\ typeName \notin schema.roots
    /\ typeName \notin DOMAIN config.mappers
    /\ ~(hasDefaultMapper /\ ~hasPlaceholder(config.defaultMapper.type))

\* the field names an entry omits from its base identifier: 'f' | 'g'
OmittedNames(entry) ==
    {entry[i] : i \in {j \in 2..(Len(entry) - 1) :
                          /\ entry[j - 1] = "'"
                          /\ entry[j + 1] = "'"
                          /\ entry[j] # "|"}}

\* the entry redeclares the field as name?: ...
DeclaresOptional(entry, name) ==
    \E i \in 1..(Len(entry) - 2) :
        entry[i] = name /\ entry[i + 1] = "?" /\ entry[i + 2] = ":"

\* the entry redeclares the field as name: ...
DeclaresRequired(entry, name) ==
    \E i \in 1..(Len(entry) - 1) : entry[i] = name /\ entry[i + 1] = ":"

\* the fields of typeName whose base type has an explicit mapper, is true in
\* the dependency table or is a union
FieldsToReplace(typeName) ==
    {field \in Range(schema.fields[typeName]) :
        \/ field.type.name \in DOMAIN config.mappers
        \/ nestedMapping[field.type.name]
        \/ schema.kind[field.type.name] = "Union"}

FieldOverridePrecise(typeName, entry) ==
    /\ OmittedNames(entry) = {field.name : field \in FieldsToReplace(typeName)}
    /\ \A field \in Range(schema.fields[typeName]) :
           IF field \in FieldsToReplace(typeName)
           THEN LET optional ==
                        /\ ~config.avoidOptionals
                        /\ ~(field.type.mods # <<>>
                                /\ Head(field.type.mods) = "NonNull")
                IN  IF optional THEN DeclaresOptional(entry, field.name)
                    ELSE DeclaresRequired(entry, field.name)
           ELSE field.name \notin Range(entry)

\* C7, as claimed: the entry of an unmapped, non-root object type that
\* reaches the field override replaces exactly its fields whose base type
\* is mapped, true in the dependency table or a union, a replaced field is
\* optional exactly when avoidOptionals is off and the field is not
\* non-null, and without such fields the entry is the wrapped identifier.
C7_Original ==
    Constructed =>
        \A typeName \in DOMAIN resolversTypes :
            ReachesFieldOverride(typeName) =>
                /\ FieldOverridePrecise(typeName, resolversTypes[typeName])
                /\ FieldsToReplace(typeName) = {} =>
                       resolversTypes[typeName] =
                           Wrapped(<<convertName(typeName)>>)

\* C7, amended: the same, but without such fields the entry is the wrapped
\* identifier only when no default mapper with a placeholder is configured;
\* under one it is the wrapped template around the identifier.
C7_FieldOverridePrecision ==
    Constructed =>
        \A typeName \in DOMAIN resolversTypes :
            ReachesFieldOverride(typeName) =>
                /\ FieldOverridePrecise(typeName, resolversTypes[typeName])
                /\ FieldsToReplace(typeName) = {} =>
                       resolversTypes[typeName] =
                           IF DefaultMapperHasPlaceholder
                           THEN Wrapped(InDefaultMapper(
                                            <<convertName(typeName)>>))
                           ELSE Wrapped(<<convertName(typeName)>>)

C7_Witness ==
    /\ Constructed
    /\ \E typeName \in DOMAIN resolversTypes :
           /\ ReachesFieldOverride(typeName)
           /\ \E f, g, h \in Range(schema.fields[typeName]) :
                  /\ f \in FieldsToReplace(typeName)
                  /\ DeclaresOptional(resolversTypes[typeName], f.name)
                  /\ g \in FieldsToReplace(typeName)
                  /\ ~DeclaresOptional(resolversTypes[typeName], g.name)
                  /\ h \notin FieldsToReplace(typeName)
    /\ \E typeName \in DOMAIN resolversTypes :
           /\ ReachesFieldOverride(typeName)
           /\ FieldsToReplace(typeName) = {}
           /\ resolversTypes[typeName] = Wrapped(<<convertName(typeName)>>)

RECURSIVE MarkedExpression(_, _, _)
\* the expression for a chain of modifiers, read from the outside in: a
\* position (a list, or the named type at the end) has one Maybe< > around
\* it unless the modifier directly around it is a non-null
MarkedExpression(base, mods, underNonNull) ==
    IF mods = <<>>
    THEN IF underNonNull THEN base ELSE <<"Maybe<">> \o base \o <<">">>
    ELSE IF Head(mods) = "NonNull"
    THEN MarkedExpression(base, Tail(mods), TRUE)
    ELSE LET list == <<"Array<">> \o MarkedExpression(base, Tail(mods), FALSE)
                         \o <<">">>
         IN  IF underNonNull THEN list ELSE <<"Maybe<">> \o list \o <<">">>

\* C8: for every chain of modifiers and every base expression that does not
\* start with the nullable marker, wrapTypeWithModifiers marks the named
\* type and every list with exactly one Maybe< >, except the positions
\* directly under a non-null, which get none.
C8_NullableMarkers ==
    pc = "wrapped" /\ ~startsWith(wrapBase, "Maybe<") =>
        wrapResult = MarkedExpression(wrapBase, wrapType.mods, FALSE)

C8_Witness ==
    /\ pc = "wrapped"
    /\ wrapBase = <<"ResolversTypes", "['", "User", "']">>
    /\ wrapType.mods = <<"NonNull", "List", "List">>
    /\ wrapResult = <<"Array<", "Maybe<", "Array<", "Maybe<", "ResolversTypes",
                      "['", "User", "']", ">", ">", ">", ">">>

\* the dependency table has a boolean for every type of the schema
TableComplete ==
    /\ DOMAIN nestedMapping = Range(schema.order)
    /\ \A name \in DOMAIN nestedMapping : nestedMapping[name] \in BOOLEAN

\* C9: on every type graph, cyclic or not, the calls of shouldMapType never
\* nest deeper than twice the number of types, and each of the two runs of
\* the analysis comes to its end with a boolean for every type.
C9_AnalysisTerminates ==
    /\ [](Len(stack) <= 2 * typeCount)
    /\ <>(pc = "build" /\ TableComplete)

\* a self-reference and a mutual reference, neither type mapped
C9_Witness ==
    /\ pc = "build"
    /\ pass = 1
    /\ TableComplete
    /\ {"User", "post"} \cap DOMAIN config.mappers = {}
    /\ \E f \in Range(schema.fields["User"]) : f.type.name = "User"
    /\ \E f \in Range(schema.fields["User"]) : f.type.name = "post"
    /\ \E f \in Range(schema.fields["post"]) : f.type.name = "User"
    /\ ~nestedMapping["User"]
    /\ ~nestedMapping["post"]

\* the names whose ResolversTypes entry is their own mapper's expression
TakenFromMapper ==
    {name \in DOMAIN resolversTypes \cap DOMAIN config.mappers :
        /\ config.mappers[name].type # <<>>
        /\ WrapsExpression(resolversTypes[name], config.mappers[name].type)}

\* C10: the usage set only grows; once the constructor has returned it is
\* exactly the set of names whose table entry was taken from their explicit
\* mapper; and unusedMappers returns the registered names that are not in it.
C10_UsageSet ==
    /\ [][usedMappers \subseteq usedMappers']_vars
    /\ [](Constructed => usedMappers = TakenFromMapper)
    /\ [](unused # <<>> => unused[1] = DOMAIN config.mappers \ usedMappers)

C10_Witness ==
    /\ unused = <<{"Query"}>>
    /\ usedMappers = {"User"}
    /\ config.mappers["Query"].type = <<"QueryModel">>

\* the ResolversTypes entry of typeName redeclares at least one of its fields
OverridesSomeField(typeName) == OmittedNames(resolversTypes[typeName]) # {}

\* C11: once the constructor has returned, every unmapped object or
\* interface type whose ResolversTypes entry overrides at least one field is
\* true in the dependency table, and every object type that reaches the
\* field override and has a field of that base type overrides that field.
C11_TableCoversOverrides ==
    Constructed =>
        \A typeName \in DOMAIN resolversTypes :
            /\ schema.kind[typeName] \in {"Object", "Interface"}
            /\ typeName \notin DOMAIN config.mappers
            /\ OverridesSomeField(typeName)
            => /\ nestedMapping[typeName]
               /\ \A owner \in DOMAIN resolversTypes :
                      ReachesFieldOverride(owner) =>
                          \A field \in Range(schema.fields[owner]) :
                              field.type.name = typeName =>
                                  field.name \in
                                      OmittedNames(resolversTypes[owner])

\* the explicit mapper's expression with its placeholder replaced by str
InOwnMapper(typeName, str) ==
    LET template == config.mappers[typeName].type
        at == CHOOSE k \in 1..Len(template) : template[k] = Placeholder
    IN  SubSeq(template, 1, at - 1) \o str
            \o SubSeq(template, at + 1, Len(template))

\* the entry of typeName is taken from its explicit mapper, and the mapper's
\* expression has the placeholder in it
MapperHasPlaceholder(typeName) ==
    /\ typeName \in DOMAIN config.mappers
    /\ typeName \notin schema.roots
    /\ ~HasEnumOverride(typeName)
    /\ Placeholder \in Range(config.mappers[typeName].type)

\* C12: once the constructor has returned, every type whose entry is taken
\* from an explicit mapper with a placeholder has, in both tables, the
\* mapper's expression with the placeholder replaced by the converted name
\* of the type (wrapped in ResolversTypes), not by the schema's name.
C12_PlaceholderConvertedName ==
    Constructed =>
        \A typeName \in DOMAIN resolversTypes :
            MapperHasPlaceholder(typeName) =>
                /\ resolversTypes[typeName] =
                       Wrapped(InOwnMapper(typeName, <<convertName(typeName)>>))
                /\ resolversParentTypes[typeName] =
                       InOwnMapper(typeName, <<convertName(typeName)>>)

\* a step of one pass leaves every entry the dependency table already has
\* as it is, and adds at most one entry, for a name that had none
TableWrittenOnce ==
    pass' = pass =>
        /\ \A name \in DOMAIN nestedMapping :
               /\ name \in DOMAIN nestedMapping'
               /\ nestedMapping'[name] = nestedMapping[name]
        /\ Cardinality(DOMAIN nestedMapping' \ DOMAIN nestedMapping) <= 1

\* C13: in each of the two passes the dependency table has its entry for
\* every type of the schema before the first entry of the output table is
\* written, every entry is written once, and no later step of the pass
\* changes an entry that is there.
C13_TableBeforeOutput ==
    /\ [](DOMAIN prev # {} => TableComplete)
    /\ [](pc \in {"build", "done"} => TableComplete)
    /\ [][TableWrittenOnce]_vars

C13_Witness ==
    /\ pass = 2
    /\ pc = "build"
    /\ DOMAIN prev = {"Query", "User"}
    /\ TableComplete
    /\ nestedMapping["post"]
    /\ ~nestedMapping["Result"]
    /\ \E f \in Range(schema.fields["post"]) : f.type.name = "User"
    /\ \E f \in Range(schema.fields["User"]) : f.type.name = "post"

\* a type with an explicit mapper that is neither a scalar nor an
\* introspection type
MappedEnd(typeName) ==
    /\ typeName \in DOMAIN config.mappers
    /\ schema.kind[typeName] # "Scalar"
    /\ SubSeq(typeName, 1, 2) # "__"

RECURSIVE ChainStarts(_)
\* the unmapped object and interface types from which a chain of at most n
\* fields, through unmapped object and interface types, ends in a MappedEnd
ChainStarts(n) ==
    IF n = 0 THEN {}
    ELSE LET shorter == ChainStarts(n - 1)
         IN  {typeName \in Range(schema.order) :
                 /\ schema.kind[typeName] \in {"Object", "Interface"}
                 /\ typeName \notin DOMAIN config.mappers
                 /\ \E field \in Range(schema.fields[typeName]) :
                        \/ MappedEnd(field.type.name)
                        \/ field.type.name \in shorter}

RequiresMapping(typeName) ==
    /\ SubSeq(typeName, 1, 2) # "__"
    /\ schema.kind[typeName] # "Scalar"
    /\ \/ typeName \in DOMAIN config.mappers
       \/ typeName \in ChainStarts(Len(schema.order))

\* C14: whatever the order of the types in the type map and of the fields
\* in a type, the finished dependency table is true for a type exactly when
\* the type is neither an introspection type nor a scalar and either has an
\* explicit mapper or starts a chain of fields through unmapped object and
\* interface types that ends in a mapped type that is neither a scalar nor
\* an introspection type.
C14_TableExact ==
    pc = "build" =>
        /\ DOMAIN nestedMapping = Range(schema.order)
        /\ \A typeName \in Range(schema.order) :
               nestedMapping[typeName] = RequiresMapping(typeName)

\* a cycle of two types in front of the mapped type, in the reverse order
C14_Witness ==
    /\ pc = "build"
    /\ schema.order = Reverse(TypeMapKeys)
    /\ DOMAIN config.mappers = {"Node"}
    /\ \E f \in Range(schema.fields["User"]) : f.type.name = "post"
    /\ Len(schema.fields["post"]) = 2
    /\ schema.fields["post"][1].type.name = "User"
    /\ schema.fields["post"][2].type.name = "Node"
    /\ nestedMapping["User"]
    /\ nestedMapping["post"]
    /\ ~nestedMapping["Query"]

\* an entry without its outermost wrapper marker, if it has one
WithoutOuterWrapper(entry) ==
    IF entry # <<>> /\ Head(entry) = "ResolverTypeWrapper<"
           /\ entry[Len(entry)] = ">"
    THEN SubSeq(entry, 2, Len(entry) - 1)
    ELSE entry

\* C15: once the constructor has returned, for every type the
\* ResolversParentTypes entry is the ResolversTypes entry without its
\* outermost wrapper marker (the same entry when it has none), and no
\* ResolversParentTypes entry has a wrapper marker in it.
C15_TablesDifferByWrapper ==
    Constructed =>
        \A typeName \in DOMAIN resolversTypes :
            /\ resolversParentTypes[typeName] =
                   WithoutOuterWrapper(resolversTypes[typeName])
            /\ "ResolverTypeWrapper<" \notin Range(resolversParentTypes[typeName])

====
